---- MODULE Spec2Model ----
(***************************************************************************)
(* Model of BLEHeartRateMonitor.cpp: the exported C API (host thread), the *)
(* worker thread running BleWorkerLogic, and the two WinRT event handlers  *)
(* (ConnectionStatusChanged, ValueChanged), which the platform runs on its *)
(* own threads, concurrently with the worker.                              *)
(*                                                                         *)
(* Program counters are named after the source line the thread is about to *)
(* execute: "w57" is the worker before line 57, "c72" the connection-      *)
(* status handler before line 72, "v109" the value handler before line     *)
(* 109, "h239" the host before line 239.                                   *)
(***************************************************************************)
EXTENDS Integers, Sequences, FiniteSets, TLC

\* ------------------------------------------------------------------ bounds
MaxEvents == 4     \* inputs from outside: API calls of the host, notifications and
                   \* connection-status changes of the peripheral
MaxLen == 3        \* longest notification payload of the decoder check

\* --------------------------------------------------------------- constants
Threads == {"host", "worker", "conn", "value"}
Callbacks == {0, 1, 2}                    \* 0 is nullptr
Bytes == {0, 1, 6, 80}                    \* byte values of the decoder check
Payloads == {<<1, 80>>, <<0, 72>>, <<1, 80, 0>>}   \* payloads sent in a session
AllPayloads == UNION {[1..n -> Bytes] : n \in 0..MaxLen}

VARIABLES
  g_statusCallback,      \* line 23
  g_hrCallback,          \* line 24
  g_shouldStop,          \* line 27
  g_workerThread,        \* line 28: TRUE iff g_workerThread.joinable()
  g_callbackMutex,       \* line 29: "free" or the thread that holds it
  g_currentState,        \* line 30
  pc,                    \* position of every thread
  rs,                    \* progress inside ReportStatus: 1 once line 175 has written the state
  bleDevice,             \* line 47: TRUE iff non-null
  hrCharacteristic,      \* line 48: TRUE iff non-null
  valueChangedToken,     \* line 49: TRUE iff the ValueChanged handler is registered
  connectionStatusToken, \* line 50: TRUE iff the ConnectionStatusChanged handler is registered
  devStatus,             \* BluetoothLEDevice::ConnectionStatus()
  cccd,                  \* the peripheral's client characteristic configuration
  closeCount,            \* calls of bleDevice.Close() on the current handle
  payload,               \* args.CharacteristicValue() of the notification being handled
  regArg,                \* the callback argument of a registration in progress
  nEvents,               \* inputs from outside so far
  hRet,                  \* <<function, return value>> of the last StartHrMonitoring or StopHrMonitoring that returned
  statusLog,             \* status codes passed through ReportStatus since the last start, in mutex order
  lastCode,              \* status of the last ReportStatus that reached line 177
  workerLog,             \* status codes the worker passed through ReportStatus since the last start
  lastCb,                \* the callback that ReportStatus invoked at line 178 (0: none)
  workers,               \* threads executing BleWorkerLogic
  waited,                \* line 79 found the device not connected in this session
  cleanupLog,            \* the cleanup calls (lines 147-154) the worker has made in this session, in order
  stopAt,                \* what the worker was doing when StopHrMonitoring set g_shouldStop
  notifLog               \* <<payload, callback, value>> of every notification handled

vars == <<g_statusCallback, g_hrCallback, g_shouldStop, g_workerThread, g_callbackMutex,
          g_currentState, pc, rs, bleDevice, hrCharacteristic, valueChangedToken,
          connectionStatusToken, devStatus, cccd, closeCount, payload, regArg,
          nEvents, hRet, statusLog, workerLog, lastCode, lastCb,
          workers, waited, cleanupLog,
          stopAt, notifLog>>

cbVars == <<g_statusCallback, g_hrCallback>>
sessVars == <<bleDevice, hrCharacteristic, valueChangedToken, connectionStatusToken>>
devVars == <<devStatus, cccd, closeCount>>
valVars == <<payload, notifLog>>
hostVars == <<regArg, nEvents, hRet, stopAt>>
logVars == <<statusLog, workerLog, lastCode, lastCb>>

Goto(t, l) == pc' = [pc EXCEPT ![t] = l]

\* LockGuard without the mutex: the guarded block is entered at once.
LockGuardAbsent == TRUE

\* lines 176, 187, 202, 208: the constructor of std::lock_guard returns once
\* no other thread holds g_callbackMutex.
LockGuard == g_callbackMutex = "free"

\* ------------------------------------------------------------ ReportStatus
\* StatusOf with the cleanup error of line 160 reported as the error of line
\* 134.
StatusOfCleanupAsError(l) ==
  CASE l = "w53" -> 1
    [] l = "w63" -> 2
    [] l = "w82" -> 2
    [] l = "w86" -> 3
    [] l = "w99" -> 4
    [] l = "w121" -> 10
    [] l = "w129" -> 11
    [] l = "w134" -> 99
    [] l = "w160" -> 99
    [] l = "w169" -> 0
    [] l = "c72" -> 5
    [] l = "v117" -> 99
    [] l = "h224" -> 99

\* The ReportStatus calls of the source, by the position of the caller.
StatusOf(l) ==
  CASE l = "w53" -> 1
    [] l = "w63" -> 2
    [] l = "w82" -> 2
    [] l = "w86" -> 3
    [] l = "w99" -> 4
    [] l = "w121" -> 10
    [] l = "w129" -> 11
    [] l = "w134" -> 99
    [] l = "w160" -> 98
    [] l = "w169" -> 0
    [] l = "c72" -> 5
    [] l = "v117" -> 99
    [] l = "h224" -> 99

\* AfterReport with a cleanup error (line 160) thrown on after it is reported:
\* BleWorkerLogic ends without lines 166-169.
AfterReportRethrow(l) ==
  CASE l = "w53" -> "w57"
    [] l = "w63" -> "w64"
    [] l = "w82" -> "w86"
    [] l = "w86" -> "w87"
    [] l = "w99" -> "w100"
    [] l = "w121" -> "w124"
    [] l = "w129" -> "w146"
    [] l = "w134" -> "w146"
    [] l = "w160" -> "exited"
    [] l = "w169" -> "exited"
    [] l = "c72" -> "c74"
    [] l = "v117" -> "idle"
    [] l = "h224" -> "h225"

\* Where the caller continues after ReportStatus returns.
AfterReport(l) ==
  CASE l = "w53" -> "w57"
    [] l = "w63" -> "w64"
    [] l = "w82" -> "w86"
    [] l = "w86" -> "w87"
    [] l = "w99" -> "w100"
    [] l = "w121" -> "w124"
    [] l = "w129" -> "w146"
    [] l = "w134" -> "w146"
    [] l = "w160" -> "w166"
    [] l = "w169" -> "exited"
    [] l = "c72" -> "c74"
    [] l = "v117" -> "idle"
    [] l = "h224" -> "h225"

ReportLabels == {"w53", "w63", "w82", "w86", "w99", "w121", "w129", "w134", "w160",
                 "w169", "c72", "v117", "h224"}

InReport(t) == pc[t] \in ReportLabels

\* line 175: g_currentState = status, before the mutex is taken.
ReportStatusStore(t) ==
  /\ InReport(t) /\ rs[t] = 0
  /\ g_currentState' = StatusOf(pc[t])
  /\ rs' = [rs EXCEPT ![t] = 1]
  /\ UNCHANGED <<cbVars, g_shouldStop, g_workerThread, g_callbackMutex, pc, sessVars,
                 devVars, valVars, hostVars, logVars, workers, waited, cleanupLog>>

\* lines 176-182: the mutex is taken, the callback, if any, is invoked with the
\* status, and the guard is released on return. The worker's last report
\* (line 169) is followed by the end of BleWorkerLogic (lines 170-171). A
\* decoding error ends the value handler here: notifLog records it as
\* callback -1.
ReportStatusCall(t) ==
  /\ InReport(t) /\ rs[t] = 1
  /\ LockGuard
  /\ statusLog' = Append(statusLog, StatusOf(pc[t]))
  /\ workerLog' = IF t = "worker" THEN Append(workerLog, StatusOf(pc[t])) ELSE workerLog
  /\ lastCode' = StatusOf(pc[t])
  /\ lastCb' = g_statusCallback
  /\ rs' = [rs EXCEPT ![t] = 0]
  /\ Goto(t, AfterReport(pc[t]))
  /\ workers' = IF pc[t] = "w169" THEN workers - 1 ELSE workers
  /\ notifLog' = IF pc[t] = "v117" THEN Append(notifLog, <<payload, -1, 0>>) ELSE notifLog
  /\ payload' = IF pc[t] = "v117" THEN <<>> ELSE payload
  /\ UNCHANGED <<cbVars, g_shouldStop, g_workerThread, g_callbackMutex, g_currentState,
                 sessVars, devVars, hostVars, waited, cleanupLog>>

\* -------------------------------------------------------------------- host
HostIdle == pc["host"] = "idle" /\ nEvents < MaxEvents

\* lines 195-199
InitializePlugin ==
  /\ HostIdle
  /\ g_currentState' = 0
  /\ nEvents' = nEvents + 1
  /\ UNCHANGED <<cbVars, g_shouldStop, g_workerThread, g_callbackMutex, pc, rs, sessVars,
                 devVars, valVars, regArg, hRet, stopAt, logVars, workers,
                 waited, cleanupLog>>

\* lines 201-202 and 207-208: the call takes the mutex.
RegisterLock(l, callback) ==
  /\ HostIdle
  /\ LockGuard
  /\ g_callbackMutex' = "host"
  /\ regArg' = callback
  /\ nEvents' = nEvents + 1
  /\ Goto("host", l)
  /\ UNCHANGED <<cbVars, g_shouldStop, g_workerThread, g_currentState, rs, sessVars,
                 devVars, valVars, hRet, stopAt, logVars, workers, waited, cleanupLog>>

\* lines 203-205
RegisterStatusCallbackStore ==
  /\ pc["host"] = "h203"
  /\ g_statusCallback' = regArg
  /\ g_callbackMutex' = "free"
  /\ regArg' = 0
  /\ Goto("host", "idle")
  /\ UNCHANGED <<g_hrCallback, g_shouldStop, g_workerThread, g_currentState, rs, sessVars,
                 devVars, valVars, nEvents, hRet, stopAt, logVars, workers,
                 waited, cleanupLog>>

\* lines 209-211
RegisterHeartRateCallbackStore ==
  /\ pc["host"] = "h209"
  /\ g_hrCallback' = regArg
  /\ g_callbackMutex' = "free"
  /\ regArg' = 0
  /\ Goto("host", "idle")
  /\ UNCHANGED <<g_statusCallback, g_shouldStop, g_workerThread, g_currentState, rs,
                 sessVars, devVars, valVars, nEvents, hRet, stopAt, logVars,
                 workers, waited, cleanupLog>>

RegisterStatusCallback == \E callback \in Callbacks : RegisterLock("h203", callback)

RegisterHeartRateCallback == \E callback \in Callbacks : RegisterLock("h209", callback)

\* StartRefused without the test of joinable().
StartNeverRefused == FALSE

\* line 214: the test that decides whether StartHrMonitoring refuses.
StartRefused == g_workerThread

\* lines 214-216
StartAlreadyRunning ==
  /\ HostIdle
  /\ StartRefused
  /\ nEvents' = nEvents + 1
  /\ hRet' = <<"StartHrMonitoring", -1>>
  /\ UNCHANGED <<cbVars, g_shouldStop, g_workerThread, g_callbackMutex, g_currentState, pc,
                 rs, sessVars, devVars, valVars, regArg, stopAt, logVars, workers,
                 waited, cleanupLog>>

\* lines 217-220 and 227: the thread is created; its locals (lines 47-50) are fresh.
StartSpawn ==
  /\ HostIdle
  /\ ~StartRefused
  /\ g_shouldStop' = FALSE
  /\ g_workerThread' = TRUE
  /\ pc' = [pc EXCEPT !["worker"] = "w53"]
  /\ workers' = workers + 1
  /\ bleDevice' = FALSE
  /\ hrCharacteristic' = FALSE
  /\ valueChangedToken' = FALSE
  /\ connectionStatusToken' = FALSE
  /\ nEvents' = nEvents + 1
  /\ hRet' = <<"StartHrMonitoring", 0>>
  /\ statusLog' = <<>>
  /\ workerLog' = <<>>
  /\ waited' = FALSE
  /\ cleanupLog' = <<>>
  /\ stopAt' = "none"
  /\ UNCHANGED <<cbVars, g_callbackMutex, g_currentState, rs, devVars, valVars, regArg,
                 lastCode, lastCb>>

\* lines 217-224: std::thread's constructor throws; g_workerThread stays empty.
StartSpawnFails ==
  /\ HostIdle
  /\ ~StartRefused
  /\ g_shouldStop' = FALSE
  /\ nEvents' = nEvents + 1
  /\ statusLog' = <<>>
  /\ workerLog' = <<>>
  /\ waited' = FALSE
  /\ stopAt' = "none"
  /\ Goto("host", "h224")
  /\ UNCHANGED <<cbVars, g_workerThread, g_callbackMutex, g_currentState, rs, sessVars,
                 devVars, valVars, regArg, hRet, lastCode, lastCb, workers, cleanupLog>>

\* line 225
StartReturnFailed ==
  /\ pc["host"] = "h225"
  /\ hRet' = <<"StartHrMonitoring", -2>>
  /\ Goto("host", "idle")
  /\ UNCHANGED <<cbVars, g_shouldStop, g_workerThread, g_callbackMutex, g_currentState, rs,
                 sessVars, devVars, valVars, regArg, nEvents, stopAt, logVars,
                 workers, waited, cleanupLog>>

\* StopRefused without the test of joinable().
StopNeverRefused == FALSE

\* line 231: the test that decides whether StopHrMonitoring refuses.
StopRefused == ~g_workerThread

\* lines 231-233
StopNotRunning ==
  /\ HostIdle
  /\ StopRefused
  /\ nEvents' = nEvents + 1
  /\ hRet' = <<"StopHrMonitoring", -1>>
  /\ UNCHANGED <<cbVars, g_shouldStop, g_workerThread, g_callbackMutex, g_currentState, pc,
                 rs, sessVars, devVars, valVars, regArg, stopAt, logVars, workers,
                 waited, cleanupLog>>

\* What the worker is doing: setting up (lines 53-121), in the loop of line
\* 124, or past it.
Phase ==
  CASE pc["worker"] \in {"w53", "w57", "w63", "w64", "w79", "w82", "w86", "w87", "w93",
                         "w99", "w100", "w121"} -> "setup"
    [] pc["worker"] = "w124" -> "loop"
    [] OTHER -> "cleanup"

\* line 234
StopSignal ==
  /\ HostIdle
  /\ ~StopRefused
  /\ g_shouldStop' = TRUE
  /\ nEvents' = nEvents + 1
  /\ stopAt' = Phase
  /\ Goto("host", "h239")
  /\ UNCHANGED <<cbVars, g_workerThread, g_callbackMutex, g_currentState, rs, sessVars,
                 devVars, valVars, regArg, hRet, logVars, workers, waited, cleanupLog>>

\* line 239: join() returns when BleWorkerLogic has returned.
JoinReady == pc["worker"] = "exited"

\* lines 238-248. join() is called by the host thread on a joinable thread, so
\* it does not throw and the handler of lines 242-246 is not entered.
StopJoin ==
  /\ pc["host"] = "h239"
  /\ JoinReady
  /\ g_workerThread' = FALSE
  /\ pc' = [pc EXCEPT !["host"] = "idle", !["worker"] = "none"]
  /\ hRet' = <<"StopHrMonitoring", 0>>
  /\ UNCHANGED <<cbVars, g_shouldStop, g_callbackMutex, g_currentState, rs, sessVars,
                 devVars, valVars, regArg, nEvents, stopAt, logVars, workers,
                 waited, cleanupLog>>

\* lines 252-254
GetCurrentStatus == g_currentState

\* ------------------------------------------------------------------ worker
WorkerFrame == UNCHANGED <<cbVars, g_shouldStop, g_workerThread, g_callbackMutex,
                           g_currentState, rs, valVars, hostVars, logVars, workers>>

\* Throw with the exception swallowed: the cleanup is entered without a report.
ThrowUnreported == Goto("worker", "w146")

\* lines 132-142: every exception of the try block ends in ReportStatus(99).
Throw == Goto("worker", "w134")

\* lines 56-61
FindAllAsync ==
  /\ pc["worker"] = "w57"
  /\ \E found \in BOOLEAN : IF found THEN Goto("worker", "w63") ELSE Throw
  /\ WorkerFrame
  /\ UNCHANGED <<sessVars, devVars, waited, cleanupLog>>

\* lines 64-76: the device object, then the ConnectionStatusChanged handler.
FromIdAsync ==
  /\ pc["worker"] = "w64"
  /\ \/ /\ bleDevice' = TRUE
        /\ connectionStatusToken' = TRUE
        /\ closeCount' = 0
        /\ devStatus' \in {"Connected", "Disconnected"}
        /\ Goto("worker", "w79")
     \/ /\ Throw
        /\ UNCHANGED <<bleDevice, connectionStatusToken, closeCount, devStatus>>
  /\ WorkerFrame
  /\ UNCHANGED <<hrCharacteristic, valueChangedToken, cccd, waited, cleanupLog>>

\* lines 79-84
CheckConnected ==
  /\ pc["worker"] = "w79"
  /\ IF devStatus # "Connected"
       THEN Goto("worker", "w82") /\ waited' = TRUE
       ELSE Goto("worker", "w86") /\ waited' = FALSE
  /\ WorkerFrame
  /\ UNCHANGED <<sessVars, devVars, cleanupLog>>

\* lines 87-91
GetGattServices ==
  /\ pc["worker"] = "w87"
  /\ \E found \in BOOLEAN : IF found THEN Goto("worker", "w93") ELSE Throw
  /\ WorkerFrame
  /\ UNCHANGED <<sessVars, devVars, waited, cleanupLog>>

\* lines 93-97
GetCharacteristics ==
  /\ pc["worker"] = "w93"
  /\ \/ hrCharacteristic' = TRUE /\ Goto("worker", "w99")
     \/ Throw /\ UNCHANGED hrCharacteristic
  /\ WorkerFrame
  /\ UNCHANGED <<bleDevice, valueChangedToken, connectionStatusToken, devVars, waited, cleanupLog>>

\* Subscribe with the stop flag read before the write: a stop requested
\* during setup takes the worker to the cleanup.
SubscribeUnlessStopped ==
  /\ pc["worker"] = "w100"
  /\ IF g_shouldStop
       THEN Goto("worker", "w146") /\ UNCHANGED <<cccd, valueChangedToken>>
       ELSE \/ /\ cccd' = "Notify"
               /\ valueChangedToken' = TRUE
               /\ Goto("worker", "w121")
            \/ Throw /\ UNCHANGED <<cccd, valueChangedToken>>
  /\ WorkerFrame
  /\ UNCHANGED <<bleDevice, hrCharacteristic, connectionStatusToken, devStatus, closeCount,
                 waited, cleanupLog>>

\* lines 100-119: the Notify write, then the ValueChanged handler.
Subscribe ==
  /\ pc["worker"] = "w100"
  /\ \/ /\ cccd' = "Notify"
        /\ valueChangedToken' = TRUE
        /\ Goto("worker", "w121")
     \/ Throw /\ UNCHANGED <<cccd, valueChangedToken>>
  /\ WorkerFrame
  /\ UNCHANGED <<bleDevice, hrCharacteristic, connectionStatusToken, devStatus, closeCount,
                 waited, cleanupLog>>

\* lines 124-127: the loop is left once g_shouldStop reads true.
LoopExit == g_shouldStop

\* MonitorLoop with the report of line 129 left out.
MonitorLoopSilent ==
  /\ pc["worker"] = "w124"
  /\ LoopExit
  /\ Goto("worker", "w146")
  /\ WorkerFrame
  /\ UNCHANGED <<sessVars, devVars, waited, cleanupLog>>

MonitorLoop ==
  /\ pc["worker"] = "w124"
  /\ LoopExit
  /\ Goto("worker", "w129")
  /\ WorkerFrame
  /\ UNCHANGED <<sessVars, devVars, waited, cleanupLog>>

\* lines 146-147
CleanupValueChanged ==
  /\ pc["worker"] = "w146"
  /\ IF hrCharacteristic
       THEN /\ valueChangedToken' = FALSE
            /\ cleanupLog' = Append(cleanupLog, "ValueChanged")
            /\ Goto("worker", "w149")
       ELSE UNCHANGED <<valueChangedToken, cleanupLog>> /\ Goto("worker", "w152")
  /\ WorkerFrame
  /\ UNCHANGED <<bleDevice, hrCharacteristic, connectionStatusToken, devVars, waited>>

\* lines 149-150: the None write succeeds, returns a failure status (ignored)
\* or throws (lines 157-164).
CleanupWriteNone ==
  /\ pc["worker"] = "w149"
  /\ \/ cccd' = "None" /\ Goto("worker", "w152")
     \/ UNCHANGED cccd /\ Goto("worker", "w152")
     \/ UNCHANGED cccd /\ Goto("worker", "w160")
  /\ cleanupLog' = Append(cleanupLog, "WriteNone")
  /\ WorkerFrame
  /\ UNCHANGED <<sessVars, devStatus, closeCount, waited>>

\* lines 152-153
CleanupConnectionStatus ==
  /\ pc["worker"] = "w152"
  /\ IF bleDevice
       THEN /\ connectionStatusToken' = FALSE
            /\ cleanupLog' = Append(cleanupLog, "ConnectionStatusChanged")
            /\ Goto("worker", "w154")
       ELSE UNCHANGED <<connectionStatusToken, cleanupLog>> /\ Goto("worker", "w166")
  /\ WorkerFrame
  /\ UNCHANGED <<bleDevice, hrCharacteristic, valueChangedToken, devVars, waited>>

\* line 154: Close() returns or throws (lines 157-164).
CleanupClose ==
  /\ pc["worker"] = "w154"
  /\ \/ closeCount' = closeCount + 1 /\ Goto("worker", "w166")
     \/ UNCHANGED closeCount /\ Goto("worker", "w160")
  /\ cleanupLog' = Append(cleanupLog, "Close")
  /\ WorkerFrame
  /\ UNCHANGED <<sessVars, devStatus, cccd, waited>>

\* lines 166-167
Release ==
  /\ pc["worker"] = "w166"
  /\ bleDevice' = FALSE
  /\ hrCharacteristic' = FALSE
  /\ Goto("worker", "w169")
  /\ WorkerFrame
  /\ UNCHANGED <<valueChangedToken, connectionStatusToken, devVars, waited, cleanupLog>>

Worker ==
  \/ FindAllAsync
  \/ FromIdAsync
  \/ CheckConnected
  \/ GetGattServices
  \/ GetCharacteristics
  \/ Subscribe
  \/ MonitorLoop
  \/ CleanupValueChanged
  \/ CleanupWriteNone
  \/ CleanupConnectionStatus
  \/ CleanupClose
  \/ Release
  \/ ReportStatusStore("worker")
  \/ ReportStatusCall("worker")

\* ------------------------------------------------- the peripheral and WinRT
\* The device object raises events while the worker holds it open.
DeviceOpen == bleDevice /\ closeCount = 0

\* The peripheral changes its connection status. WinRT raises
\* ConnectionStatusChanged on a thread of its own if the handler is registered
\* (line 70); removing the handler (line 153) does not wait for an invocation
\* that has begun.
ConnectionStatusChanged ==
  /\ DeviceOpen
  /\ nEvents < MaxEvents
  /\ pc["conn"] = "idle"
  /\ nEvents' = nEvents + 1
  /\ devStatus' = IF devStatus = "Connected" THEN "Disconnected" ELSE "Connected"
  /\ IF connectionStatusToken THEN Goto("conn", "c71") ELSE UNCHANGED pc
  /\ UNCHANGED <<cbVars, g_shouldStop, g_workerThread, g_callbackMutex, g_currentState, rs,
                 sessVars, cccd, closeCount, valVars, regArg, hRet, stopAt, logVars, workers,
                 waited, cleanupLog>>

\* line 71
HandlerCheckStatus ==
  /\ pc["conn"] = "c71"
  /\ IF devStatus = "Disconnected" THEN Goto("conn", "c72") ELSE Goto("conn", "idle")
  /\ UNCHANGED <<cbVars, g_shouldStop, g_workerThread, g_callbackMutex, g_currentState, rs,
                 sessVars, devVars, valVars, hostVars, logVars, workers, waited, cleanupLog>>

\* line 74
HandlerSignalStop ==
  /\ pc["conn"] = "c74"
  /\ g_shouldStop' = TRUE
  /\ Goto("conn", "idle")
  /\ UNCHANGED <<cbVars, g_workerThread, g_callbackMutex, g_currentState, rs, sessVars,
                 devVars, valVars, hostVars, logVars, workers, waited, cleanupLog>>

ConnectionHandler ==
  \/ HandlerCheckStatus
  \/ HandlerSignalStop
  \/ ReportStatusStore("conn")
  \/ ReportStatusCall("conn")

\* ------------------------------------------------------------- the decoder
\* DataReader::ReadUInt16 of bytes b1 b2: a DataReader reads in its ByteOrder,
\* which is BigEndian unless it is set, and line 109 does not set it.
ReadUInt16(b1, b2) == b1 * 256 + b2

\* lines 110-111: TRUE iff one of the reads runs past the end of the buffer
\* (the DataReader throws an hresult_error).
ReadFails(p) ==
  IF Len(p) < 1 THEN TRUE
  ELSE IF p[1] % 2 = 1 THEN Len(p) < 3
  ELSE Len(p) < 2

\* Decode with the one-byte value read at the offset of the flags.
DecodeFlagsAsValue(p) == IF p[1] % 2 = 1 THEN ReadUInt16(p[2], p[3]) ELSE p[1]

\* lines 110-111: the value of rate.
Decode(p) == IF p[1] % 2 = 1 THEN ReadUInt16(p[2], p[3]) ELSE p[2]

\* The peripheral notifies; WinRT runs the ValueChanged handler (line 106) on a
\* thread of its own.
Notification(from) ==
  /\ DeviceOpen /\ hrCharacteristic /\ valueChangedToken
  /\ devStatus = "Connected" /\ cccd = "Notify"
  /\ nEvents < MaxEvents
  /\ pc["value"] = "idle"
  /\ nEvents' = nEvents + 1
  /\ payload' \in from
  /\ Goto("value", "v109")
  /\ UNCHANGED <<cbVars, g_shouldStop, g_workerThread, g_callbackMutex, g_currentState, rs,
                 sessVars, devVars, notifLog, regArg, hRet, stopAt, logVars,
                 workers, waited, cleanupLog>>

ValueChanged == Notification(Payloads)

\* HandlerReadFails with a decoding error treated like a disconnect.
HandlerReadFailsStops ==
  /\ pc["value"] = "v109"
  /\ ReadFails(payload)
  /\ g_shouldStop' = TRUE
  /\ Goto("value", "v117")
  /\ UNCHANGED <<cbVars, g_workerThread, g_callbackMutex, g_currentState, rs, sessVars,
                 devVars, valVars, hostVars, logVars, workers, waited, cleanupLog>>

\* lines 109-111 and 114: a read past the end of the buffer throws.
HandlerReadFails ==
  /\ pc["value"] = "v109"
  /\ ReadFails(payload)
  /\ Goto("value", "v117")
  /\ UNCHANGED <<cbVars, g_shouldStop, g_workerThread, g_callbackMutex, g_currentState, rs,
                 sessVars, devVars, valVars, hostVars, logVars, workers, waited, cleanupLog>>

\* lines 109-112 and 185-191: ReportHeartRate(rate) takes the mutex and gives
\* rate to the callback, if any (callback 0: the value is dropped).
HandlerReportHeartRate ==
  /\ pc["value"] = "v109"
  /\ ~ReadFails(payload)
  /\ LockGuard
  /\ notifLog' = Append(notifLog, <<payload, g_hrCallback, Decode(payload)>>)
  /\ payload' = <<>>
  /\ Goto("value", "idle")
  /\ UNCHANGED <<cbVars, g_shouldStop, g_workerThread, g_callbackMutex, g_currentState, rs,
                 sessVars, devVars, hostVars, logVars, workers, waited, cleanupLog>>

ValueHandler ==
  \/ HandlerReadFails
  \/ HandlerReportHeartRate
  \/ ReportStatusStore("value")
  \/ ReportStatusCall("value")

\* -------------------------------------------------------------- the system
Host ==
  \/ InitializePlugin
  \/ RegisterStatusCallback
  \/ RegisterStatusCallbackStore
  \/ RegisterHeartRateCallback
  \/ RegisterHeartRateCallbackStore
  \/ StartAlreadyRunning
  \/ StartSpawn
  \/ StartSpawnFails
  \/ StartReturnFailed
  \/ StopNotRunning
  \/ StopSignal
  \/ StopJoin
  \/ ReportStatusStore("host")
  \/ ReportStatusCall("host")

Init ==
  /\ g_statusCallback = 0
  /\ g_hrCallback = 0
  /\ g_shouldStop = FALSE
  /\ g_workerThread = FALSE
  /\ g_callbackMutex = "free"
  /\ g_currentState = 0
  /\ pc = [t \in Threads |-> IF t = "worker" THEN "none" ELSE "idle"]
  /\ rs = [t \in Threads |-> 0]
  /\ bleDevice = FALSE
  /\ hrCharacteristic = FALSE
  /\ valueChangedToken = FALSE
  /\ connectionStatusToken = FALSE
  /\ devStatus = "Disconnected"
  /\ cccd = "None"
  /\ closeCount = 0
  /\ payload = <<>>
  /\ regArg = 0
  /\ nEvents = 0
  /\ hRet = <<"none", 0>>
  /\ statusLog = <<>>
  /\ workerLog = <<>>
  /\ lastCode = 0
  /\ lastCb = 0
  /\ workers = 0
  /\ waited = FALSE
  /\ cleanupLog = <<>>
  /\ stopAt = "none"
  /\ notifLog = <<>>

Next == Host \/ Worker \/ ConnectionHandler \/ ValueHandler \/ ConnectionStatusChanged
          \/ ValueChanged

Spec == Init /\ [][Next]_vars

\* The scheduler runs every thread that can take a step: the worker, the two
\* handlers, and the host inside a call it has begun.
HostReturn == RegisterStatusCallbackStore \/ RegisterHeartRateCallbackStore
                \/ StartReturnFailed \/ StopJoin \/ ReportStatusStore("host")
                \/ ReportStatusCall("host")

LiveSpec == Spec /\ WF_vars(Worker) /\ WF_vars(ConnectionHandler) /\ WF_vars(ValueHandler)
              /\ WF_vars(HostReturn)

\* ------------------------------------------------------ the decoder alone
\* A session in the loop of line 124, with any heart-rate callback, about to
\* receive its last notification.
DecodeInit ==
  /\ g_statusCallback = 0
  /\ g_hrCallback \in Callbacks
  /\ g_shouldStop = FALSE
  /\ g_workerThread = TRUE
  /\ g_callbackMutex = "free"
  /\ g_currentState = 10
  /\ pc = [t \in Threads |-> IF t = "worker" THEN "w124" ELSE "idle"]
  /\ rs = [t \in Threads |-> 0]
  /\ bleDevice = TRUE
  /\ hrCharacteristic = TRUE
  /\ valueChangedToken = TRUE
  /\ connectionStatusToken = TRUE
  /\ devStatus = "Connected"
  /\ cccd = "Notify"
  /\ closeCount = 0
  /\ payload = <<>>
  /\ regArg = 0
  /\ nEvents = MaxEvents - 1
  /\ hRet = <<"StartHrMonitoring", 0>>
  /\ statusLog = <<1, 2, 3, 4, 10>>
  /\ workerLog = <<1, 2, 3, 4, 10>>
  /\ lastCode = 10
  /\ lastCb = 0
  /\ workers = 1
  /\ waited = FALSE
  /\ cleanupLog = <<>>
  /\ stopAt = "none"
  /\ notifLog = <<>>

AnyValueChanged == Notification(AllPayloads)

DecodeNext == AnyValueChanged \/ ValueHandler

DecodeSpec == DecodeInit /\ [][DecodeNext]_vars

\* ------------------------------------------------------------- properties
Range(f) == {f[i] : i \in DOMAIN f}

WorkerRunning == pc["worker"] \notin {"none", "exited"}

StartCall == StartAlreadyRunning \/ StartSpawn \/ StartSpawnFails

StopCall == StopNotRunning \/ StopSignal

\* C1: while a worker thread exists (a start returned 0 and no stop has joined
\* it), StartHrMonitoring returns -1 and changes nothing else: no second
\* worker, g_shouldStop as it was, no status; there is never more than one
\* worker.
C1_SecondStartRefused ==
  [][ /\ workers' <= 1
      /\ (StartCall /\ pc["worker"] # "none") =>
           /\ hRet' = <<"StartHrMonitoring", -1>>
           /\ UNCHANGED <<cbVars, g_shouldStop, g_workerThread, g_callbackMutex,
                          g_currentState, pc, rs, sessVars, devVars, valVars, regArg,
                          stopAt, logVars, workers, waited, cleanupLog>> ]_vars

C1_Witness == hRet = <<"StartHrMonitoring", -1>> /\ workers = 1 /\ WorkerRunning

\* C2: whenever no worker is executing BleWorkerLogic and the thread can be
\* created, StartHrMonitoring returns 0 with g_shouldStop cleared and a worker
\* running, also when the last session ended by itself and was not stopped.
C2_StartWhenNoSession ==
  [][ (StartCall /\ ~WorkerRunning /\ pc'["host"] # "h224") =>
        /\ hRet' = <<"StartHrMonitoring", 0>>
        /\ ~g_shouldStop'
        /\ pc'["worker"] = "w53" ]_vars

\* C3: from the return of a StopHrMonitoring that returned 0 to the next
\* StartHrMonitoring, GetCurrentStatus() is 0, the worker has emitted Stopped
\* and no worker is alive.
C3_StoppedAfterStop ==
  (hRet = <<"StopHrMonitoring", 0>> /\ pc["host"] \notin {"h224", "h225"}) =>
     /\ GetCurrentStatus = 0
     /\ 0 \in Range(statusLog)
     /\ workers = 0
     /\ pc["worker"] = "none"

\* C4: when no ReportStatus call is between its line 175 and its line 177,
\* GetCurrentStatus() is the status of the last ReportStatus that reached its
\* callback (or the 0 that InitializePlugin stores).
C4_StatusIsLastEmitted ==
  (\A t \in Threads : rs[t] = 0) => GetCurrentStatus \in {lastCode, 0}

\* C5: a worker that has reported a setup error (99) or Stopping (11), or is
\* anywhere in its cleanup, goes on to report Stopped (0) and returns.
Cleaning == pc["worker"] \in {"w129", "w134", "w146", "w149", "w152", "w154", "w160",
                              "w166", "w169"}

C5_CleanupReachesStopped == Cleaning ~> (pc["worker"] = "exited" /\ lastCode = 0)

C5_Witness == pc["worker"] = "exited" /\ statusLog = <<1, 99, 0>>

\* C6: with no worker thread (none started, or the last one joined),
\* StopHrMonitoring returns -1 at once and changes nothing else: g_shouldStop
\* as it was, no status.
C6_StopNotRunning ==
  [][ (StopCall /\ pc["worker"] = "none") =>
        /\ hRet' = <<"StopHrMonitoring", -1>>
        /\ UNCHANGED <<cbVars, g_shouldStop, g_workerThread, g_callbackMutex,
                       g_currentState, pc, rs, sessVars, devVars, valVars, regArg,
                       stopAt, logVars, workers, waited, cleanupLog>> ]_vars

C6_Witness ==
  /\ hRet = <<"StopHrMonitoring", -1>>
  /\ pc["worker"] = "none"
  /\ statusLog # <<>> /\ statusLog[Len(statusLog)] = 0

\* A session whose setup succeeded and whose cleanup did not throw, in which
\* no disconnect was reported, stopped by StopHrMonitoring while the worker
\* was in the loop of line 124.
HappyRun ==
  /\ 10 \in Range(statusLog) /\ 98 \notin Range(statusLog)
  /\ 5 \notin Range(statusLog)
  /\ stopAt = "loop"

Without99(log) == SelectSeq(log, LAMBDA c : c # 99)

C8_LittleEndian16 ==
  \A i \in 1..Len(notifLog) :
     LET p == notifLog[i][1] IN
       (Len(p) >= 3 /\ p[1] % 2 = 1) =>
          (notifLog[i][2] # -1 /\ notifLog[i][3] = p[2] + 256 * p[3])

\* C9: a payload of at least 2 bytes with bit 0 of byte 0 clear gives the
\* callback byte 1, a value in 0..255, whatever the other bits of byte 0 and
\* the bytes after byte 1.
C9_SingleByte ==
  \A i \in 1..Len(notifLog) :
     LET p == notifLog[i][1] IN
       (Len(p) >= 2 /\ p[1] % 2 = 0) =>
          /\ notifLog[i][2] # -1
          /\ notifLog[i][3] = p[2]
          /\ notifLog[i][3] \in 0..255

C9_Witness ==
  \E i \in 1..Len(notifLog) :
     notifLog[i][1] = <<6, 80, 1>> /\ notifLog[i][2] = 1 /\ notifLog[i][3] = 80

\* C10: the value handler, on a payload too short for its format, never calls
\* the heart-rate callback, leaves g_shouldStop and the registrations alone and
\* does not move the worker; every payload long enough, before or after such a
\* one, reaches ReportHeartRate.
MalformedStep ==
  \/ pc["value"] = "v109" /\ ReadFails(payload) /\ pc'["value"] # "v109"
  \/ pc["value"] = "v117" /\ (rs'["value"] # rs["value"] \/ pc'["value"] # "v117")

C10_MalformedIsNotFatal ==
  [][ /\ MalformedStep =>
           /\ UNCHANGED <<g_shouldStop, sessVars, cccd, closeCount, cbVars>>
           /\ pc'["worker"] = pc["worker"]
           /\ notifLog' \in {notifLog, Append(notifLog, <<payload, -1, 0>>)}
      /\ \A i \in 1..Len(notifLog') :
            (notifLog'[i][2] = -1) <=> ReadFails(notifLog'[i][1]) ]_vars

C10_Witness ==
  /\ pc["worker"] = "w124" /\ ~g_shouldStop
  /\ Len(notifLog) = 2
  /\ notifLog[1][2] = -1
  /\ notifLog[2][2] = 1 /\ notifLog[2][3] = 72

\* C11: a decoding error of the value handler passes no status through
\* ReportStatus: the handler's steps on a payload too short for its format
\* leave GetCurrentStatus() and the statuses given to the callback as they
\* were.
C11_DecodeErrorEmitsNoStatus ==
  [][ MalformedStep => UNCHANGED <<g_currentState, statusLog, lastCode>> ]_vars

\* The cleanup calls of lines 147-154, when all of them are made.
FullCleanup == <<"ValueChanged", "WriteNone", "ConnectionStatusChanged", "Close">>

\* Status a is passed to the callback before status b, with s passed before a.
InOrder(log, s, a, b) ==
  \E i, j, k \in 1..Len(log) : i < j /\ j < k /\ log[i] = s /\ log[j] = a /\ log[k] = b

\* A session without any StopHrMonitoring in which the disconnect handler
\* reported 5 while the worker was monitoring (after 10 and before 11), and
\* whose worker has returned.
DisconnectRun ==
  /\ pc["worker"] = "exited"
  /\ stopAt = "none"
  /\ InOrder(statusLog, 10, 5, 11)

\* C12: in such a session the worker has made the four cleanup calls in the
\* order of an explicit stop (unregister value-change, write None, unregister
\* connection-status, close), the device is closed, and 0 follows 11.
C12_DisconnectSameShutdown ==
  DisconnectRun =>
     /\ g_shouldStop
     /\ cleanupLog = FullCleanup
     /\ closeCount = 1
     /\ InOrder(statusLog, 5, 11, 0)

\* The steps that run a callback: lines 177-179 of ReportStatus, lines 188-190
\* of ReportHeartRate.
StatusEmission == \E t \in Threads : InReport(t) /\ rs[t] = 1 /\ rs'[t] = 0

HeartRateEmission ==
  /\ Len(notifLog') = Len(notifLog) + 1
  /\ notifLog'[Len(notifLog')][2] # -1

Registering == pc["host"] \in {"h203", "h209"}

\* C13: no emission runs while a registration is in progress, every emission
\* invokes the callback registered by the last registration that returned (so
\* never one that was replaced), and the registered callbacks change only when
\* a registration returns, to its argument.
C13_RegistrationExcludesEmission ==
  [][ /\ StatusEmission => (~Registering /\ lastCb' = g_statusCallback
                              /\ UNCHANGED cbVars)
      /\ HeartRateEmission => (~Registering
                                 /\ notifLog'[Len(notifLog')][2] = g_hrCallback
                                 /\ UNCHANGED cbVars)
      /\ (g_statusCallback' # g_statusCallback) =>
            (pc["host"] = "h203" /\ pc'["host"] = "idle" /\ g_statusCallback' = regArg)
      /\ (g_hrCallback' # g_hrCallback) =>
            (pc["host"] = "h209" /\ pc'["host"] = "idle" /\ g_hrCallback' = regArg) ]_vars

\* A registration of callback 2 in progress, replacing callback 1, which was
\* the last one invoked, while the worker waits at line 176 with a status.
C13_Witness ==
  /\ pc["host"] = "h203" /\ regArg = 2
  /\ g_statusCallback = 1 /\ lastCb = 1
  /\ InReport("worker") /\ rs["worker"] = 1

\* The calls of c among the cleanup calls made.
Calls(c) == Len(SelectSeq(cleanupLog, LAMBDA x : x = c))

\* C14: once Stopped (0) is emitted in a session that obtained the device
\* object (it went on to report 3), bleDevice.Close() has been called exactly
\* once, whatever the path to the cleanup and whatever fails in it.
C14_ClosedExactlyOnce ==
  (0 \in Range(statusLog) /\ 3 \in Range(statusLog)) => Calls("Close") = 1

\* C15: the device is closed only after the None write (when there is a
\* characteristic) and after the connection-status handler is unregistered;
\* the handles are released (lines 166-167) only after the handlers registered
\* on them are unregistered.
C15_CleanupOrder ==
  [][ /\ (pc["worker"] = "w154" /\ pc'["worker"] # "w154") =>
            /\ hrCharacteristic => Calls("WriteNone") = 1
            /\ ~connectionStatusToken
      /\ (pc["worker"] = "w166" /\ pc'["worker"] = "w169") =>
            /\ ~valueChangedToken
            /\ ~connectionStatusToken ]_vars

\* A session whose worker has emitted Stopped without having reached
\* Monitoring (10): one of the setup steps of lines 53-104 failed.
SetupFailed == 0 \in Range(workerLog) /\ 10 \notin Range(workerLog)

\* The worker's statuses are the first n >= 1 of steps, then 99, then (after
\* a cleanup error, 98 and) 0.
FailureLog(steps) ==
  \E n \in 1..Len(steps) :
     \E tail \in {<<99, 0>>, <<99, 98, 0>>} : workerLog = SubSeq(steps, 1, n) \o tail

\* The cleanup calls are made on the handles obtained only: none without a
\* device object (no status 3), those of the device without a characteristic
\* (no status 4), and the calls of lines 147-154 in their order otherwise.
CleanupOnAcquired ==
  IF 3 \notin Range(workerLog) THEN cleanupLog = <<>>
  ELSE IF 4 \notin Range(workerLog)
         THEN cleanupLog = <<"ConnectionStatusChanged", "Close">>
  ELSE /\ Len(cleanupLog) <= Len(FullCleanup)
       /\ cleanupLog = SubSeq(FullCleanup, 1, Len(cleanupLog))

\* After the worker returned StopHrMonitoring is not refused and its join
\* returns (it returns 0); once joined, StartHrMonitoring is not refused.
RoundTripSucceeds ==
  /\ pc["worker"] = "exited" => (~StopRefused /\ JoinReady)
  /\ pc["worker"] = "none" => ~StartRefused

\* C16 as claimed: after a failed setup the worker has emitted a prefix of
\* 1, 2, 3, 4, then 99 once, never 10 or 11, and 0 last; the cleanup touched
\* the handles obtained only; stop and a following start succeed.
C16_SetupFailureExact ==
  SetupFailed => (FailureLog(<<1, 2, 3, 4>>) /\ CleanupOnAcquired /\ RoundTripSucceeds)

\* The setup statuses in the order of lines 53-99: 2 is emitted a second time
\* (line 82) when line 79 finds the device not connected.
SetupSteps == IF waited THEN <<1, 2, 2, 3, 4>> ELSE <<1, 2, 3, 4>>

\* C16 as amended: the same, with the prefix taken from 1, 2, (2,) 3, 4.
C16_SetupFailure ==
  SetupFailed => (FailureLog(SetupSteps) /\ CleanupOnAcquired /\ RoundTripSucceeds)

\* A failed session (service not found after the device was not connected)
\* that StopHrMonitoring has joined, returning 0.
C16_Witness ==
  /\ workerLog = <<1, 2, 2, 3, 99, 0>>
  /\ cleanupLog = <<"ConnectionStatusChanged", "Close">>
  /\ hRet = <<"StopHrMonitoring", 0>> /\ pc["worker"] = "none"

\* The worker is in the handler of lines 157-164: a cleanup call has thrown.
CleanupFailed == pc["worker"] = "w160"

EndsWith(log, tail) ==
  Len(log) >= Len(tail) /\ SubSeq(log, Len(log) - Len(tail) + 1, Len(log)) = tail

LastWorkerStatus == IF workerLog = <<>> THEN -1 ELSE workerLog[Len(workerLog)]

\* C18: hrCharacteristic is non-null only while the worker's last status is 4
\* (Subscribing) or 10 (Monitoring), or while the worker is between the
\* assignment of line 97 and the report of line 99.
C18_CharacteristicOnlyWhenSubscribed ==
  hrCharacteristic => (LastWorkerStatus \in {4, 10} \/ pc["worker"] = "w99")

StartsWith(log, head) == Len(log) >= Len(head) /\ SubSeq(log, 1, Len(head)) = head

\* C19: after StopHrMonitoring set g_shouldStop during the setup, the worker
\* leaves the setup only by a failed step (99) or through Monitoring (10, then
\* 11 when it reads the flag at line 124), whatever the flag is; the host
\* stays in join() until the worker has returned.
C19_StopDuringSetupNotAborting ==
  stopAt = "setup" =>
     /\ Phase = "cleanup" =>
           \/ pc["worker"] = "w134"
           \/ 99 \in Range(workerLog) /\ 10 \notin Range(workerLog)
           \/ StartsWith(workerLog, SetupSteps \o <<10>>)
     /\ 11 \in Range(workerLog) => StartsWith(workerLog, SetupSteps \o <<10, 11>>)
     /\ pc["worker"] # "none" => (pc["host"] = "h239" /\ g_shouldStop)

\* A stop requested during the setup has returned 0 after a session that
\* went through Monitoring.
C19_Witness ==
  /\ stopAt = "setup"
  /\ hRet = <<"StopHrMonitoring", 0>> /\ pc["worker"] = "none"
  /\ workerLog = <<1, 2, 3, 4, 10, 11, 0>>
  /\ cleanupLog = FullCleanup

\* A step of one of the two event handlers after it was dispatched.
HandlerActs ==
  \E t \in {"conn", "value"} : pc[t] # "idle" /\ (pc'[t] # pc[t] \/ rs'[t] # rs[t])

\* C20: once the worker has emitted Stopped and returned, the handlers of its
\* session emit nothing and change neither GetCurrentStatus() nor
\* g_shouldStop.
C20_FinishedSessionSilent ==
  [][ (pc["worker"] \in {"exited", "none"} /\ HandlerActs) =>
         UNCHANGED <<g_currentState, g_shouldStop, statusLog, lastCode, notifLog>> ]_vars

====
